---- MODULE Spec2Model ----
(***************************************************************************)
(* Local-first data layer and background synchronisation of the inspection *)
(* app: the Inspection Repository (InspectionContext.tsx), the Reconciler  *)
(* (loadInspectionsFromBackend, syncLocalInspectionToBackend) and the      *)
(* Background Processor (BackgroundProcessorContext.tsx).                  *)
(*                                                                         *)
(* React closures are modelled explicitly: a handler created by            *)
(* useCallback reads the values of the render it was created in.  The      *)
(* variables rInsp, rIsProcessing and rCid hold the values captured by the *)
(* last render; Render refreshes them and runs the trigger effect.  A      *)
(* network result is delivered to the client only after the pending render *)
(* has run (a round trip outlasts a scheduled render).  The model covers   *)
(* one authenticated session, in which loadInspections runs once.          *)
(***************************************************************************)
EXTENDS Integers, Sequences, FiniteSets, TLC

\* ---------------------------------------------------------------- bounds
MaxItems == 2        \* captures in the session
MaxUserOps == 1      \* selections, tag edits, deletions and manual retries
MaxSrvInsp == 2      \* inspections the server creates
MaxRejects == 3      \* remote calls of the processor that fail in the session
MaxRestarts == 1     \* crashes followed by a restart
MaxClock == 2        \* base delays that pass on the clock

\* ------------------------------------------------------------- constants
maxRetries == 3
baseDelay == 5000
maxDelay == 300000

Null == <<"null", 0>>
LocalInspId(n) == <<"L", n>>
SrvInspId(n) == <<"S", n>>
LocalItemId(n) == <<"i", n>>
SrvItemId(n) == <<"s", n>>

LocalItemIds == {LocalItemId(n) : n \in 1..MaxItems}

firstRenderCurrentInspectionId == Null

\* Every captured item can be accepted once.
MaxSrvItems == MaxItems

\* The failure history saturates one past the retry budget.
MaxFails == maxRetries + 1

\* The record of the reconcile pass before its fetch or without a merge.
NoPass(phase) ==
  [phase |-> phase, converted |-> <<>>, detailFailed |-> FALSE,
   atFetch |-> {}, preserved |-> {}, deduped |-> {}, replaced |-> {}]

\* An inspection that stands for "no current inspection" (null).
NoInsp == [id |-> Null, status |-> "none", items |-> <<>>]

\* saveTimeoutRef: no save scheduled, or the snapshot the timer will write.
NoSave == [set |-> FALSE, snap |-> <<>>]

Scheduled(snap) == [set |-> TRUE, snap |-> snap]

\* No deleteInspection is running.
NoDeletion == [phase |-> "none", id |-> Null, cid |-> Null, snapshot |-> {},
               remote |-> "none", attempted |-> {}, removed |-> {}]

\* No createInspection is running.
NoCreation == [phase |-> "none", res |-> Null]

\* ------------------------------------------------------------- variables
VARIABLES
  inspections,         \* useState<Inspection[]>: sequence of [id, items]
  currentInspectionId, \* useState<string | null>
  storedCurrentId,     \* AsyncStorage '@current_inspection_id'
  isProcessing,        \* useState(false) of the Background Processor
  processingItems,     \* processingItemsRef.current: Set<string>
  calls,               \* handlers of running ticks and their remote calls
  rInsp,               \* currentInspection captured by the last render
  rIsProcessing,       \* isProcessing captured by the last render
  rCid,                \* currentInspectionId captured by the last render
  srv,                 \* server: inspection id -> set of item ids
  srvItemCount,        \* items the server has accepted so far
  itemCount,           \* captured items so far
  opCount,             \* selections, edits, deletions and manual retries so far
  reconcile,           \* the reconcile pass: phase (idle, fetched, then failed,
                       \* empty or merged) and converted snapshot
  syncs,               \* createInspection calls of syncLocalInspectionToBackend
  rejects,             \* failed remote calls of the processor so far
  taps,                \* manual retry requests so far
  stored,              \* AsyncStorage '@inspections_list'
  saveTimer,           \* saveTimeoutRef: the scheduled debounced save
  restarts,            \* crashes followed by a restart so far
  now,                 \* the clock, in milliseconds
  failedAt,            \* history: time of the last failed call per item
  deletion,            \* the running deleteInspection call
  media,               \* items whose local media files are on disk
  creation,            \* the running createInspection call
  thrown,              \* history: operations that threw to their caller
  trashed,             \* history: backendIds of the items deleted locally
  fails                \* history: failed calls per captured item (saturating)

vars == <<inspections, currentInspectionId, storedCurrentId, isProcessing,
          processingItems, calls, rInsp, rIsProcessing, rCid, srv,
          srvItemCount, itemCount, opCount, reconcile,
          syncs, rejects, taps, stored, saveTimer, restarts, now, failedAt,
          deletion, media, creation, thrown, trashed, fails>>

uiVars == <<creation, thrown, trashed>>

storeVars == <<stored, restarts>>

clockVars == <<now, failedAt>>

delVars == <<deletion, media>>

\* --------------------------------------------------------------- helpers
\* Array.prototype.find on the id: index of the first match, 0 if none.
FindIndex(insps, id) ==
  IF \E k \in DOMAIN insps : insps[k].id = id
  THEN CHOOSE k \in DOMAIN insps :
         /\ insps[k].id = id
         /\ \A j \in 1..(k - 1) : insps[j].id # id
  ELSE 0

\* The derived currentInspection (useMemo).
CurrentInspection(insps, cid) ==
  IF cid = Null \/ FindIndex(insps, cid) = 0
  THEN NoInsp
  ELSE insps[FindIndex(insps, cid)]

\* { ...item, ...updates }
Merge(item, updates) ==
  [f \in DOMAIN item |-> IF f \in DOMAIN updates THEN updates[f] ELSE item[f]]

\* { ...items, [itemId]: item }
Put(items, itemId, item) ==
  [k \in DOMAIN items \cup {itemId} |-> IF k = itemId THEN item ELSE items[k]]

\* const { [itemId]: _, ...remainingItems } = items
Remove(items, itemId) ==
  [k \in DOMAIN items \ {itemId} |-> items[k]]

\* The item with this id in any inspection of the collection.
HasItem(insps, itemId) ==
  \E k \in DOMAIN insps : itemId \in DOMAIN insps[k].items

ItemOf(insps, itemId) ==
  LET k == CHOOSE k \in DOMAIN insps : itemId \in DOMAIN insps[k].items
  IN insps[k].items[itemId]

AllItemIds(insps) == UNION {DOMAIN insps[k].items : k \in DOMAIN insps}

\* ------------------------------------------------ Inspection Repository
\* Variant of updateInspectionItem that stores the updates as a new item when
\* the item is missing.
UpdateInspectionItem_InsertingMissing(prev, cid, itemId, updates) ==
  [k \in DOMAIN prev |->
     IF prev[k].id = cid
     THEN [prev[k] EXCEPT !.items =
             Put(prev[k].items, itemId,
                 IF itemId \in DOMAIN prev[k].items
                 THEN Merge(prev[k].items[itemId], updates)
                 ELSE updates)]
     ELSE prev[k]]

\* Variant of updateInspectionItem that, when the item is missing, writes the
\* updates to the items the inspection still has.
UpdateInspectionItem_FallingBack(prev, cid, itemId, updates) ==
  [k \in DOMAIN prev |->
     IF prev[k].id = cid
     THEN [prev[k] EXCEPT !.items =
             [i \in DOMAIN prev[k].items |->
                IF i = itemId \/ itemId \notin DOMAIN prev[k].items
                THEN Merge(prev[k].items[i], updates)
                ELSE prev[k].items[i]]]
     ELSE prev[k]]

\* updateInspectionItem(itemId, updates) of the render whose
\* currentInspectionId is cid, applied to the latest state (prev).
UpdateInspectionItem(prev, cid, itemId, updates) ==
  IF \/ FindIndex(prev, cid) = 0
     \/ itemId \notin DOMAIN prev[FindIndex(prev, cid)].items
  THEN prev
  ELSE [k \in DOMAIN prev |->
          IF prev[k].id = cid /\ itemId \in DOMAIN prev[k].items
          THEN [prev[k] EXCEPT !.items =
                  Put(prev[k].items, itemId, Merge(prev[k].items[itemId], updates))]
          ELSE prev[k]]

\* updateInspectionItem finds the item: it writes and schedules a save.
Found(prev, cid, itemId) ==
  /\ FindIndex(prev, cid) # 0
  /\ itemId \in DOMAIN prev[FindIndex(prev, cid)].items

\* The save timer after updateInspectionItem calls for the items ids on prev
\* that ended in next: the last call that found its item rescheduled it.
AfterUpdates(timer, prev, cid, ids, next) ==
  IF \E i \in ids : Found(prev, cid, i) THEN Scheduled(next) ELSE timer

\* Several updateInspectionItem calls made in a row by one handler: updf maps
\* each item id to the updates written for it.
RECURSIVE UpdateAll(_, _, _)
UpdateAll(prev, cid, updf) ==
  IF DOMAIN updf = {} THEN prev
  ELSE LET i == CHOOSE x \in DOMAIN updf : TRUE
       IN UpdateAll(UpdateInspectionItem(prev, cid, i, updf[i]), cid,
                    [x \in DOMAIN updf \ {i} |-> updf[x]])

\* Variant of addInspectionItem that forgets to spread the existing items.
AddItemTo_WithoutSpread(prev, cid, itemId, item) ==
  [k \in DOMAIN prev |->
     IF prev[k].id = cid
     THEN [prev[k] EXCEPT !.items = Put(<<>>, itemId, item)]
     ELSE prev[k]]

\* addInspectionItem: insert into the inspections whose id is cid.
AddItemTo(prev, cid, itemId, item) ==
  [k \in DOMAIN prev |->
     IF prev[k].id = cid
     THEN [prev[k] EXCEPT !.items = Put(prev[k].items, itemId, item)]
     ELSE prev[k]]

\* deleteInspectionItem: remove from the inspections whose id is cid.
DeleteItemFrom(prev, cid, itemId) ==
  [k \in DOMAIN prev |->
     IF prev[k].id = cid
     THEN [prev[k] EXCEPT !.items = Remove(prev[k].items, itemId)]
     ELSE prev[k]]

\* The item made by handleCapture.
NewItem(inspectionId) ==
  [inspectionId |-> inspectionId, backendId |-> Null,
   processingStatus |-> "pending", retryCount |-> 0, tags |-> "none"]

\* ---------------------------------------------------------------- render
\* The last render shows the latest state.
Fresh ==
  /\ rInsp = CurrentInspection(inspections, currentInspectionId)
  /\ rIsProcessing = isProcessing
  /\ rCid = currentInspectionId

\* ------------------------------------------------- Background Processor
\* Variant of the eligibility filter that ignores the in-flight set.
IsEligible_IgnoringInFlight(item, itemId, ref) ==
  item.processingStatus = "pending"

\* Variant of the eligibility filter that passes an item only before its
\* first attempt.
IsEligible_FirstAttemptOnly(item, itemId, ref) ==
  /\ item.processingStatus = "pending" /\ itemId \notin ref
  /\ item.retryCount = 0

\* The eligibility filter of the trigger effect and of update.
IsEligible(item, itemId, ref) ==
  item.processingStatus = "pending" /\ itemId \notin ref

PendingItems(ci, ref) ==
  {i \in DOMAIN ci.items : IsEligible(ci.items[i], i, ref)}

\* The smallest tick number no running tick uses.
FreshTick(cls) ==
  CHOOSE n \in 1..(Cardinality(cls) + 1) : \A c \in cls : c.tick # n

\* Variant of update() that starts a handler for one of the eligible items
\* only.
Update_SingleHandler(insps, isProcState, ref, cls, ci, isProc, cid) ==
  LET pendingItems == PendingItems(ci, ref)
  IN IF ci = NoInsp \/ isProc \/ pendingItems = {}
     THEN [inspections |-> insps, isProcessing |-> isProcState,
           processingItems |-> ref, calls |-> cls, touched |-> {}]
     ELSE LET first == CHOOSE i \in pendingItems : TRUE
          IN [inspections |->
                UpdateAll(insps, cid,
                          [i \in {first} |-> [processingStatus |-> "processing"]]),
              isProcessing |-> TRUE,
              processingItems |-> ref \cup pendingItems,
              calls |-> cls \cup
                {[tick |-> FreshTick(cls), item |-> first,
                  snap |-> ci.items[first], cid |-> cid, st |-> "sent",
                  res |-> Null, wrote |-> FALSE,
                  sel |-> Null]},
              touched |-> {first}]

\* Variant of update() whose handlers take the upload branch for every item.
Update_AlwaysUploading(insps, isProcState, ref, cls, ci, isProc, cid) ==
  LET pendingItems == PendingItems(ci, ref)
  IN IF ci = NoInsp \/ isProc \/ pendingItems = {}
     THEN [inspections |-> insps, isProcessing |-> isProcState,
           processingItems |-> ref, calls |-> cls, touched |-> {}]
     ELSE [inspections |->
             UpdateAll(insps, cid,
                       [i \in pendingItems |-> [processingStatus |-> "processing"]]),
           isProcessing |-> TRUE,
           processingItems |-> ref \cup pendingItems,
           calls |-> cls \cup
             {[tick |-> FreshTick(cls), item |-> i,
               snap |-> [ci.items[i] EXCEPT !.backendId = Null],
               cid |-> cid, st |-> "sent", res |-> Null, wrote |-> FALSE,
                  sel |-> Null] :
                i \in pendingItems},
           touched |-> pendingItems]

\* update() of the render that captured ci, isProc and cid, run on the state
\* (insps, isProcState, ref, cls): the early returns, the in-flight marks and,
\* per eligible item, processItem up to its remote call.
Update(insps, isProcState, ref, cls, ci, isProc, cid) ==
  LET pendingItems == PendingItems(ci, ref)
  IN IF ci = NoInsp \/ isProc \/ pendingItems = {}
     THEN [inspections |-> insps, isProcessing |-> isProcState,
           processingItems |-> ref, calls |-> cls, touched |-> {}]
     ELSE [inspections |->
             UpdateAll(insps, cid,
                       [i \in pendingItems |-> [processingStatus |-> "processing"]]),
           isProcessing |-> TRUE,
           processingItems |-> ref \cup pendingItems,
           calls |-> cls \cup
             {[tick |-> FreshTick(cls), item |-> i, snap |-> ci.items[i],
               cid |-> cid, st |-> "sent", res |-> Null, wrote |-> FALSE,
                  sel |-> Null] :
                i \in pendingItems},
           touched |-> pendingItems]

\* Variant of handleRetry that compares with > instead of >=.
HandleRetry_StrictlyGreater(snap) ==
  LET newRetryCount == snap.retryCount + 1
  IN IF newRetryCount > maxRetries
     THEN [processingStatus |-> "failed", retryCount |-> newRetryCount]
     ELSE [processingStatus |-> "pending", retryCount |-> newRetryCount]

\* handleRetry(item): the updates written for the snapshot's retryCount.
HandleRetry(snap) ==
  LET newRetryCount == snap.retryCount + 1
  IN IF newRetryCount >= maxRetries
     THEN [processingStatus |-> "failed", retryCount |-> newRetryCount]
     ELSE [processingStatus |-> "pending", retryCount |-> newRetryCount]

\* Variant of the write-back that writes the call's result id on both
\* branches.
WriteBack_AlwaysWritingId(c) ==
  IF c.st = "ok"
  THEN [processingStatus |-> "completed", backendId |-> c.res,
        tags |-> "server"]
  ELSE HandleRetry(c.snap)

\* The write-back of processItem once its remote call has settled.
WriteBack(c) ==
  IF c.st = "ok"
  THEN IF c.snap.backendId # Null
       THEN [processingStatus |-> "completed"]
       ELSE [processingStatus |-> "completed", backendId |-> c.res,
             tags |-> "server"]
  ELSE HandleRetry(c.snap)

\* A render: the closures are refreshed and the trigger effect runs.
Render ==
  /\ ~Fresh
  /\ LET ci == CurrentInspection(inspections, currentInspectionId)
         r == Update(inspections, isProcessing, processingItems, calls,
                     ci, isProcessing, currentInspectionId)
     IN /\ rInsp' = ci
        /\ rIsProcessing' = isProcessing
        /\ rCid' = currentInspectionId
        /\ inspections' = r.inspections
        /\ isProcessing' = r.isProcessing
        /\ processingItems' = r.processingItems
        /\ calls' = r.calls
        /\ saveTimer' = AfterUpdates(saveTimer, inspections, currentInspectionId,
                                     r.touched, r.inspections)
  /\ UNCHANGED <<storeVars, clockVars, delVars>>
  /\ UNCHANGED <<currentInspectionId, storedCurrentId, srv, srvItemCount,
                 itemCount, opCount, reconcile, syncs,
                 rejects, taps,
                 fails>>
  /\ UNCHANGED uiVars

\* Variant of the retry filter that considers pending items only.
RetryableItems_PendingOnly(ci, ref) ==
  {i \in DOMAIN ci.items :
     /\ ci.items[i].processingStatus \in {"pending"}
     /\ i \notin ref}

\* The items retryUploadSync considers.
RetryableItems(ci, ref) ==
  {i \in DOMAIN ci.items :
     /\ ci.items[i].processingStatus \in {"failed", "pending"}
     /\ i \notin ref}

\* retryUploadSync, called from the settings screen (handleRetrySync) with the
\* closures of the last render.
RetryUploadSync ==
  /\ opCount < MaxUserOps
  /\ opCount' = opCount + 1
  /\ taps' = taps + 1
  /\ rInsp # NoInsp
  /\ \E i \in DOMAIN rInsp.items :
       rInsp.items[i].processingStatus \in {"failed", "pending"}
  /\ LET retryableItems == RetryableItems(rInsp, processingItems)
         failedItems == {i \in retryableItems :
                           rInsp.items[i].processingStatus = "failed"}
         reset == UpdateAll(inspections, rCid,
                    [i \in failedItems |->
                       [processingStatus |-> "pending", retryCount |-> 0]])
         r == Update(reset, isProcessing, processingItems, calls,
                     rInsp, rIsProcessing, rCid)
     IN IF retryableItems = {}
        THEN UNCHANGED <<inspections, isProcessing, processingItems, calls,
                         saveTimer>>
        ELSE /\ inspections' = r.inspections
             /\ isProcessing' = r.isProcessing
             /\ processingItems' = r.processingItems
             /\ calls' = r.calls
             /\ saveTimer' = AfterUpdates(saveTimer, inspections, rCid,
                                          failedItems \cup r.touched,
                                          r.inspections)
  /\ UNCHANGED <<storeVars, clockVars, delVars>>
  /\ UNCHANGED <<currentInspectionId, storedCurrentId, rInsp, rIsProcessing,
                 rCid, srv, srvItemCount, itemCount,
                 reconcile, syncs, rejects, fails>>
  /\ UNCHANGED uiVars

\* The server holds an item with this id.
ServerHasItem(itemId) == \E k \in DOMAIN srv : itemId \in srv[k]

\* The request of a handler can be served: an upload names an inspection the
\* server knows, an update names an item the server holds.
Acceptable(c) ==
  IF c.snap.backendId = Null
  THEN c.snap.inspectionId \in DOMAIN srv
  ELSE ServerHasItem(c.snap.backendId)

\* The Remote Client's request is served: uploadInspectionItem stores a new
\* item under the inspection named by the snapshot and returns its id,
\* updateInspectionItem changes an item the server holds.
ServerAccept(c) ==
  /\ c \in calls /\ c.st = "sent"
  /\ Acceptable(c)
  /\ IF c.snap.backendId = Null
     THEN /\ srvItemCount < MaxSrvItems
          /\ srvItemCount' = srvItemCount + 1
          /\ srv' = [srv EXCEPT ![c.snap.inspectionId] =
                       @ \cup {SrvItemId(srvItemCount + 1)}]
          /\ calls' = (calls \ {c}) \cup
                        {[c EXCEPT !.st = "ok", !.res = SrvItemId(srvItemCount + 1)]}
     ELSE /\ calls' = (calls \ {c}) \cup {[c EXCEPT !.st = "ok"]}
          /\ UNCHANGED <<srv, srvItemCount>>
  /\ UNCHANGED <<inspections, currentInspectionId, storedCurrentId,
                 isProcessing, processingItems, rInsp, rIsProcessing, rCid,
                 itemCount, opCount, reconcile, syncs, rejects, taps,
                 fails>>
  /\ UNCHANGED <<saveTimer, storeVars, clockVars, delVars>>
  /\ UNCHANGED uiVars

\* The request fails in transit: no connectivity or a timeout.
ServerReject(c) ==
  /\ c \in calls /\ c.st = "sent"
  /\ rejects < MaxRejects
  /\ rejects' = rejects + 1
  /\ calls' = (calls \ {c}) \cup {[c EXCEPT !.st = "err"]}
  /\ UNCHANGED <<inspections, currentInspectionId, storedCurrentId,
                 isProcessing, processingItems, rInsp, rIsProcessing, rCid,
                 srv, srvItemCount, itemCount, opCount, reconcile, syncs,
                 taps,
                 fails>>
  /\ UNCHANGED <<saveTimer, storeVars, clockVars, delVars>>
  /\ UNCHANGED uiVars

\* The server answers with an error: the request names an inspection it does
\* not know.
ServerRefuse(c) ==
  /\ c \in calls /\ c.st = "sent"
  /\ ~Acceptable(c)
  /\ calls' = (calls \ {c}) \cup {[c EXCEPT !.st = "err"]}
  /\ UNCHANGED <<inspections, currentInspectionId, storedCurrentId,
                 isProcessing, processingItems, rInsp, rIsProcessing, rCid,
                 srv, srvItemCount, itemCount, opCount, reconcile, syncs,
                 rejects, taps,
                 fails>>
  /\ UNCHANGED <<saveTimer, storeVars, clockVars, delVars>>
  /\ UNCHANGED uiVars

\* Variant of the write-back that uses the updateInspectionItem of the latest
\* render: the result goes to the inspection selected when the call settles.
Settle_ToCurrentSelection(c) ==
  /\ c \in calls /\ c.st \in {"ok", "err"}
  /\ Fresh
  /\ inspections' = UpdateInspectionItem(inspections, currentInspectionId,
                                       c.item, WriteBack(c))
  /\ LET tickCalls == {d \in calls : d.tick = c.tick}
     IN IF \A d \in tickCalls \ {c} : d.st = "settled"
        THEN /\ calls' = calls \ tickCalls
             /\ processingItems' = processingItems \ {d.item : d \in tickCalls}
             /\ isProcessing' = FALSE
        ELSE /\ calls' = (calls \ {c}) \cup
                          {[c EXCEPT !.st = "settled",
                                     !.wrote = Found(inspections, c.cid, c.item),
                                     !.sel = currentInspectionId]}
             /\ UNCHANGED <<processingItems, isProcessing>>
  /\ saveTimer' = AfterUpdates(saveTimer, inspections, c.cid, {c.item},
                               inspections')
  /\ failedAt' = IF c.st = "err" /\ c.item \in DOMAIN failedAt
                 THEN [failedAt EXCEPT ![c.item] = now]
                 ELSE failedAt
  /\ UNCHANGED <<storeVars, now, delVars>>
  /\ fails' = IF c.st = "err" /\ c.item \in DOMAIN fails
              THEN [fails EXCEPT ![c.item] = IF @ < MaxFails THEN @ + 1 ELSE @]
              ELSE fails
  /\ UNCHANGED <<currentInspectionId, storedCurrentId, rInsp, rIsProcessing,
                 rCid, srv, srvItemCount, itemCount,
                 opCount, reconcile, syncs, rejects, taps>>
  /\ UNCHANGED uiVars

\* Variant of the join that clears the in-flight mark of the last handler
\* only.
Settle_KeepingMarks(c) ==
  /\ c \in calls /\ c.st \in {"ok", "err"}
  /\ Fresh
  /\ inspections' = UpdateInspectionItem(inspections, c.cid, c.item, WriteBack(c))
  /\ LET tickCalls == {d \in calls : d.tick = c.tick}
     IN IF \A d \in tickCalls \ {c} : d.st = "settled"
        THEN /\ calls' = calls \ tickCalls
             /\ processingItems' = processingItems \ {c.item}
             /\ isProcessing' = FALSE
        ELSE /\ calls' = (calls \ {c}) \cup
                          {[c EXCEPT !.st = "settled",
                                     !.wrote = Found(inspections, c.cid, c.item),
                                     !.sel = currentInspectionId]}
             /\ UNCHANGED <<processingItems, isProcessing>>
  /\ saveTimer' = AfterUpdates(saveTimer, inspections, c.cid, {c.item},
                               inspections')
  /\ failedAt' = IF c.st = "err" /\ c.item \in DOMAIN failedAt
                 THEN [failedAt EXCEPT ![c.item] = now]
                 ELSE failedAt
  /\ UNCHANGED <<storeVars, now, delVars>>
  /\ fails' = IF c.st = "err" /\ c.item \in DOMAIN fails
              THEN [fails EXCEPT ![c.item] = IF @ < MaxFails THEN @ + 1 ELSE @]
              ELSE fails
  /\ UNCHANGED <<currentInspectionId, storedCurrentId, rInsp, rIsProcessing,
                 rCid, srv, srvItemCount, itemCount,
                 opCount, reconcile, syncs, rejects, taps>>
  /\ UNCHANGED uiVars

\* The remote call of processItem settles: the write-back, and the join of the
\* tick (Promise.allSettled(...).finally) once its last handler has settled.
Settle(c) ==
  /\ c \in calls /\ c.st \in {"ok", "err"}
  /\ Fresh
  /\ inspections' = UpdateInspectionItem(inspections, c.cid, c.item, WriteBack(c))
  /\ LET tickCalls == {d \in calls : d.tick = c.tick}
     IN IF \A d \in tickCalls \ {c} : d.st = "settled"
        THEN /\ calls' = calls \ tickCalls
             /\ processingItems' = processingItems \ {d.item : d \in tickCalls}
             /\ isProcessing' = FALSE
        ELSE /\ calls' = (calls \ {c}) \cup
                          {[c EXCEPT !.st = "settled",
                                     !.wrote = Found(inspections, c.cid, c.item),
                                     !.sel = currentInspectionId]}
             /\ UNCHANGED <<processingItems, isProcessing>>
  /\ saveTimer' = AfterUpdates(saveTimer, inspections, c.cid, {c.item},
                               inspections')
  /\ failedAt' = IF c.st = "err" /\ c.item \in DOMAIN failedAt
                 THEN [failedAt EXCEPT ![c.item] = now]
                 ELSE failedAt
  /\ UNCHANGED <<storeVars, now, delVars>>
  /\ fails' = IF c.st = "err" /\ c.item \in DOMAIN fails
              THEN [fails EXCEPT ![c.item] = IF @ < MaxFails THEN @ + 1 ELSE @]
              ELSE fails
  /\ UNCHANGED <<currentInspectionId, storedCurrentId, rInsp, rIsProcessing,
                 rCid, srv, srvItemCount, itemCount,
                 opCount, reconcile, syncs, rejects, taps>>
  /\ UNCHANGED uiVars

\* ------------------------------------------- Repository: user operations
\* setCurrentInspection(inspection) for an inspection of the rendered list.
SetCurrentInspection(k) ==
  /\ Fresh
  /\ k \in DOMAIN inspections
  /\ inspections[k].id # currentInspectionId
  /\ opCount < MaxUserOps
  /\ opCount' = opCount + 1
  /\ storedCurrentId' = inspections[k].id
  /\ currentInspectionId' = inspections[k].id
  /\ UNCHANGED <<inspections, isProcessing, processingItems, calls, rInsp,
                 rIsProcessing, rCid, srv, srvItemCount, itemCount,
                 reconcile, syncs, rejects, taps, fails>>
  /\ UNCHANGED <<saveTimer, storeVars, clockVars, delVars>>
  /\ UNCHANGED uiVars

\* Variant of the failing setCurrentInspection that sets the in-memory
\* pointer before the durable write.
SetCurrentInspectionFails_MemoryFirst(k) ==
  /\ Fresh
  /\ k \in DOMAIN inspections
  /\ inspections[k].id # currentInspectionId
  /\ opCount < MaxUserOps
  /\ opCount' = opCount + 1
  /\ thrown' = thrown \cup {"setCurrentInspection"}
  /\ currentInspectionId' = inspections[k].id
  /\ UNCHANGED <<inspections, storedCurrentId, isProcessing,
                 processingItems, calls, rInsp, rIsProcessing, rCid, srv,
                 srvItemCount, itemCount, reconcile, syncs, rejects, taps,
                 creation, trashed, fails>>
  /\ UNCHANGED <<saveTimer, storeVars, clockVars, delVars>>

\* setCurrentInspection(inspection) when AsyncStorage.setItem throws: the
\* catch logs and rethrows before setCurrentInspectionId is reached.
SetCurrentInspectionFails(k) ==
  /\ Fresh
  /\ k \in DOMAIN inspections
  /\ inspections[k].id # currentInspectionId
  /\ opCount < MaxUserOps
  /\ opCount' = opCount + 1
  /\ thrown' = thrown \cup {"setCurrentInspection"}
  /\ UNCHANGED <<inspections, currentInspectionId, storedCurrentId,
                 isProcessing, processingItems, calls, rInsp, rIsProcessing,
                 rCid, srv, srvItemCount, itemCount, reconcile, syncs,
                 rejects, taps, creation, trashed, fails>>
  /\ UNCHANGED <<saveTimer, storeVars, clockVars, delVars>>

\* handleCapture: a new pending item for the rendered current inspection,
\* stored by addInspectionItem.
AddInspectionItem ==
  /\ Fresh
  /\ rInsp # NoInsp
  /\ itemCount < MaxItems
  /\ itemCount' = itemCount + 1
  /\ inspections' = AddItemTo(inspections, rCid, LocalItemId(itemCount + 1),
                              NewItem(rInsp.id))
  /\ UNCHANGED <<currentInspectionId, storedCurrentId, isProcessing,
                 processingItems, calls, rInsp, rIsProcessing, rCid, srv,
                 srvItemCount, opCount, reconcile, syncs,
                 rejects, taps,
                 fails>>
  /\ saveTimer' = Scheduled(inspections')
  /\ media' = media \cup {LocalItemId(itemCount + 1)}
  /\ UNCHANGED <<storeVars, clockVars, deletion>>
  /\ UNCHANGED uiVars

\* The updates addTag and removeTag pass to updateInspectionItem.
TagUpdates == [tags |-> "user", processingStatus |-> "pending"]

\* addTag / removeTag of the tag editor on an item of the current inspection.
EditTags(itemId) ==
  /\ Fresh
  /\ itemId \in DOMAIN rInsp.items
  /\ opCount < MaxUserOps
  /\ opCount' = opCount + 1
  /\ inspections' = UpdateInspectionItem(inspections, rCid, itemId, TagUpdates)
  /\ UNCHANGED <<currentInspectionId, storedCurrentId, isProcessing,
                 processingItems, calls, rInsp, rIsProcessing, rCid, srv,
                 srvItemCount, itemCount, reconcile, syncs,
                 rejects, taps,
                 fails>>
  /\ saveTimer' = AfterUpdates(saveTimer, inspections, rCid, {itemId},
                               inspections')
  /\ UNCHANGED <<storeVars, clockVars, delVars>>
  /\ UNCHANGED uiVars

\* The backendIds the item carries in the inspections whose id is cid.
BackendIdsOf(prev, cid, itemId) ==
  {prev[k].items[itemId].backendId :
     k \in {j \in DOMAIN prev :
              prev[j].id = cid /\ itemId \in DOMAIN prev[j].items}} \ {Null}

\* deleteInspectionItem on an item of the current inspection.
DeleteInspectionItem(itemId) ==
  /\ Fresh
  /\ itemId \in DOMAIN rInsp.items
  /\ opCount < MaxUserOps
  /\ opCount' = opCount + 1
  /\ inspections' = DeleteItemFrom(inspections, rCid, itemId)
  /\ UNCHANGED <<currentInspectionId, storedCurrentId, isProcessing,
                 processingItems, calls, rInsp, rIsProcessing, rCid, srv,
                 srvItemCount, itemCount, reconcile, syncs, rejects, taps,
                 fails>>
  /\ saveTimer' = Scheduled(inspections')
  /\ UNCHANGED <<storeVars, clockVars, delVars>>
  /\ trashed' = trashed \cup BackendIdsOf(inspections, rCid, itemId)
  /\ UNCHANGED <<creation, thrown>>

\* ------------------------------------------------------------ Reconciler
\* A server item in the canonical shape.
ConvertItem(inspectionId, itemId) ==
  [inspectionId |-> inspectionId, backendId |-> itemId,
   processingStatus |-> "completed", retryCount |-> 0, tags |-> "server"]

\* A server inspection in the canonical shape; detailOk tells whether
\* apiClient.getInspection succeeded (the catch returns an empty item map).
\* The server's inspections are in progress: their status converts to active.
ConvertInspection(id, detailOk) ==
  [id |-> id,
   status |-> "active",
   items |-> IF detailOk
             THEN [i \in srv[id] |-> ConvertItem(id, i)]
             ELSE <<>>]

\* Variant of the re-insertion test that keeps pending items only.
IsPreserved_PendingOnly(item) ==
  /\ item.backendId = Null
  /\ item.processingStatus \in {"pending"}

\* Variant of the re-insertion test that keeps every local item.
IsPreserved_EveryItem(item) ==
  item.processingStatus \in {"pending", "processing", "failed", "completed"}

\* The local items the merge re-inserts into the matched server inspection.
IsPreserved(item) ==
  /\ item.backendId = Null
  /\ item.processingStatus \in {"pending", "processing", "failed"}

PreservedItems(localInspection) ==
  {i \in DOMAIN localInspection.items : IsPreserved(localInspection.items[i])}

\* Variant of the item merge in which a local copy of a server item wins.
MergeItems_LocalCopyWins(backendItems, localInspection) ==
  [i \in DOMAIN backendItems \cup PreservedItems(localInspection) |->
     IF i \in PreservedItems(localInspection)
     THEN localInspection.items[i]
     ELSE IF \E j \in DOMAIN localInspection.items :
               localInspection.items[j].backendId = i
          THEN localInspection.items[
                 CHOOSE j \in DOMAIN localInspection.items :
                   localInspection.items[j].backendId = i]
          ELSE backendItems[i]]

\* backendMatch.items[item.id] = item, for every preserved item.
MergeItems(backendItems, localInspection) ==
  [i \in DOMAIN backendItems \cup PreservedItems(localInspection) |->
     IF i \in PreservedItems(localInspection)
     THEN localInspection.items[i]
     ELSE backendItems[i]]

\* prev.forEach of the merge, from the k-th local inspection on: the merged
\* collection and the local-only inspections handed to
\* syncLocalInspectionToBackend.
\* Variant of the merge loop that also pushes the local inspections it matched.
RECURSIVE MergeLocal_PushingMatched(_, _, _, _)
MergeLocal_PushingMatched(merged, synced, prev, k) ==
  IF k > Len(prev) THEN [merged |-> merged, synced |-> synced]
  ELSE LET localInspection == prev[k]
           m == FindIndex(merged, localInspection.id)
       IN IF m # 0
          THEN MergeLocal_PushingMatched(
                 Append([merged EXCEPT ![m].items =
                           MergeItems(merged[m].items, localInspection)],
                        localInspection),
                 synced, prev, k + 1)
          ELSE MergeLocal_PushingMatched(Append(merged, localInspection),
                                         synced \cup {localInspection.id},
                                         prev, k + 1)

\* Variant of the merge loop that leaves out the local inspections the server
\* did not return.
RECURSIVE MergeLocal_DroppingUnmatched(_, _, _, _)
MergeLocal_DroppingUnmatched(merged, synced, prev, k) ==
  IF k > Len(prev) THEN [merged |-> merged, synced |-> synced]
  ELSE LET localInspection == prev[k]
           m == FindIndex(merged, localInspection.id)
       IN IF m # 0
          THEN MergeLocal_DroppingUnmatched(
                 [merged EXCEPT ![m].items =
                    MergeItems(merged[m].items, localInspection)],
                 synced, prev, k + 1)
          ELSE MergeLocal_DroppingUnmatched(
                 merged, synced \cup {localInspection.id}, prev, k + 1)

RECURSIVE MergeLocal(_, _, _, _)
MergeLocal(merged, synced, prev, k) ==
  IF k > Len(prev) THEN [merged |-> merged, synced |-> synced]
  ELSE LET localInspection == prev[k]
           m == FindIndex(merged, localInspection.id)
       IN IF m # 0
          THEN MergeLocal([merged EXCEPT ![m].items =
                             MergeItems(merged[m].items, localInspection)],
                          synced, prev, k + 1)
          ELSE MergeLocal(Append(merged, localInspection),
                          synced \cup {localInspection.id}, prev, k + 1)

\* The local items with a backendId whose matched server inspection holds
\* exactly the item of that id (kept in the pass record as history).
DedupedItems(converted, prev) ==
  {i \in AllItemIds(prev) :
     \E k \in DOMAIN prev, m \in DOMAIN converted :
        /\ converted[m].id = prev[k].id
        /\ i \in DOMAIN prev[k].items
        /\ prev[k].items[i].backendId # Null
        /\ prev[k].items[i].processingStatus = "completed"
        /\ DOMAIN converted[m].items = {prev[k].items[i].backendId}}

\* The local copies of items the server returned whose content differs from
\* the server's (kept in the pass record as history).
ReplacedItems(converted, prev) ==
  {i \in AllItemIds(prev) :
     \E k \in DOMAIN prev, m \in DOMAIN converted :
        /\ converted[m].id = prev[k].id
        /\ i \in DOMAIN prev[k].items
        /\ prev[k].items[i].backendId \in DOMAIN converted[m].items
        /\ prev[k].items[i] # converted[m].items[prev[k].items[i].backendId]}

\* The local items the merge re-inserted (kept in the pass record as history).
ReinsertedItems(converted, prev) ==
  {i \in AllItemIds(prev) :
     \E k \in DOMAIN prev, m \in DOMAIN converted :
        /\ converted[m].id = prev[k].id
        /\ i \in PreservedItems(prev[k])}

\* apiClient.getInspections() throws: the pass ends in the outer catch.
ReconcileListFails ==
  /\ reconcile.phase = "idle"
  /\ reconcile' = [reconcile EXCEPT !.phase = "failed"]
  /\ UNCHANGED <<inspections, currentInspectionId, storedCurrentId,
                 isProcessing, processingItems, calls, rInsp, rIsProcessing,
                 rCid, srv, srvItemCount, itemCount,
                 opCount, syncs, rejects, taps,
                 fails>>
  /\ UNCHANGED <<saveTimer, storeVars, clockVars, delVars>>
  /\ UNCHANGED uiVars

\* The list is empty: if (!backendInspections?.length) return.
ReconcileListEmpty ==
  /\ reconcile.phase = "idle"
  /\ DOMAIN srv = {}
  /\ reconcile' = [reconcile EXCEPT !.phase = "empty"]
  /\ UNCHANGED <<inspections, currentInspectionId, storedCurrentId,
                 isProcessing, processingItems, calls, rInsp, rIsProcessing,
                 rCid, srv, srvItemCount, itemCount,
                 opCount, syncs, rejects, taps,
                 fails>>
  /\ UNCHANGED <<saveTimer, storeVars, clockVars, delVars>>
  /\ UNCHANGED uiVars

\* The list and the details are fetched and converted; the detail fetch
\* succeeds for the inspections in detailOk.
ReconcileFetch(detailOk) ==
  /\ reconcile.phase = "idle"
  /\ DOMAIN srv # {}
  /\ detailOk \subseteq DOMAIN srv
  /\ reconcile' =
       [phase |-> "fetched",
        converted |-> [n \in 1..Cardinality(DOMAIN srv) |->
                         ConvertInspection(SrvInspId(n), SrvInspId(n) \in detailOk)],
        detailFailed |-> (detailOk # DOMAIN srv),
        atFetch |-> AllItemIds(inspections),
        preserved |-> {}, deduped |-> {}, replaced |-> {}]
  /\ UNCHANGED <<inspections, currentInspectionId, storedCurrentId,
                 isProcessing, processingItems, calls, rInsp, rIsProcessing,
                 rCid, srv, srvItemCount, itemCount,
                 opCount, syncs, rejects, taps,
                 fails>>
  /\ UNCHANGED <<saveTimer, storeVars, clockVars, delVars>>
  /\ UNCHANGED uiVars

\* setInspections(prev => merged): the merge on the state current at merge
\* time, with the createInspection calls it starts.
ReconcileMerge ==
  /\ reconcile.phase = "fetched"
  /\ Fresh
  /\ LET r == MergeLocal(reconcile.converted, {}, inspections, 1)
     IN /\ inspections' = r.merged
        /\ syncs' = syncs \cup
             {[localId |-> id, st |-> "sent", newId |-> Null] : id \in r.synced}
  /\ saveTimer' = Scheduled(inspections')
  /\ UNCHANGED <<storeVars, clockVars, delVars>>
  /\ reconcile' = [reconcile EXCEPT
                     !.phase = "merged",
                     !.atFetch = {},
                     !.preserved = ReinsertedItems(reconcile.converted, inspections),
                     !.deduped = DedupedItems(reconcile.converted, inspections),
                     !.replaced = ReplacedItems(reconcile.converted, inspections)]
  /\ UNCHANGED <<currentInspectionId, storedCurrentId, isProcessing,
                 processingItems, calls, rInsp, rIsProcessing, rCid, srv,
                 srvItemCount, itemCount, opCount, rejects, taps,
                 fails>>
  /\ UNCHANGED uiVars

\* apiClient.createInspection of syncLocalInspectionToBackend is served.
SyncServerAccept(s) ==
  /\ s \in syncs /\ s.st = "sent"
  /\ Cardinality(DOMAIN srv) < MaxSrvInsp
  /\ LET id == SrvInspId(Cardinality(DOMAIN srv) + 1)
     IN /\ srv' = Put(srv, id, {})
        /\ syncs' = (syncs \ {s}) \cup {[s EXCEPT !.st = "ok", !.newId = id]}
  /\ UNCHANGED <<inspections, currentInspectionId, storedCurrentId,
                 isProcessing, processingItems, calls, rInsp, rIsProcessing,
                 rCid, srvItemCount, itemCount, opCount,
                 reconcile, rejects, taps,
                 fails>>
  /\ UNCHANGED <<saveTimer, storeVars, clockVars, delVars>>
  /\ UNCHANGED uiVars

SyncServerReject(s) ==
  /\ s \in syncs /\ s.st = "sent"
  /\ syncs' = (syncs \ {s}) \cup {[s EXCEPT !.st = "err"]}
  /\ UNCHANGED <<inspections, currentInspectionId, storedCurrentId,
                 isProcessing, processingItems, calls, rInsp, rIsProcessing,
                 rCid, srv, srvItemCount, itemCount,
                 opCount, reconcile, rejects, taps,
                 fails>>
  /\ UNCHANGED <<saveTimer, storeVars, clockVars, delVars>>
  /\ UNCHANGED uiVars

\* The id swap of syncLocalInspectionToBackend.
AdoptId(prev, localId, newId) ==
  [k \in DOMAIN prev |->
     IF prev[k].id = localId THEN [prev[k] EXCEPT !.id = newId] ELSE prev[k]]

\* syncLocalInspectionToBackend after its createInspection call settled.  The
\* function is the one created by the first render (loadInspections and
\* loadInspectionsFromBackend have empty dependency lists), so the
\* currentInspectionId it compares with is the first render's.
SyncSettle(s) ==
  /\ s \in syncs /\ s.st \in {"ok", "err"}
  /\ Fresh
  /\ syncs' = syncs \ {s}
  /\ IF s.st = "ok"
     THEN /\ inspections' = AdoptId(inspections, s.localId, s.newId)
          /\ IF firstRenderCurrentInspectionId = s.localId
             THEN /\ currentInspectionId' = s.newId
                  /\ storedCurrentId' = s.newId
             ELSE UNCHANGED <<currentInspectionId, storedCurrentId>>
     ELSE UNCHANGED <<inspections, currentInspectionId, storedCurrentId>>
  /\ UNCHANGED <<isProcessing, processingItems, calls, rInsp, rIsProcessing,
                 rCid, srv, srvItemCount, itemCount,
                 opCount, reconcile, rejects, taps,
                 fails>>
  /\ UNCHANGED <<saveTimer, storeVars, clockVars, delVars>>
  /\ UNCHANGED uiVars

\* The timer of debouncedSaveToStorage fires: the snapshot it was given is
\* written to '@inspections_list'.
SaveFires ==
  /\ saveTimer.set
  /\ stored' = saveTimer.snap
  /\ saveTimer' = NoSave
  /\ UNCHANGED <<inspections, currentInspectionId, storedCurrentId,
                 isProcessing, processingItems, calls, rInsp, rIsProcessing,
                 rCid, srv, srvItemCount, itemCount, opCount, reconcile,
                 syncs, rejects, taps, restarts, fails>>
  /\ UNCHANGED <<clockVars, delVars>>
  /\ UNCHANGED uiVars

\* The process dies and the application is started again: the providers are
\* constructed anew (empty in-flight set, no timer, no running call) and
\* loadInspections sets the collection and the selection from the durable
\* store; the first render has captured the state before the load.  The
\* server, the files on disk and the clock are what they were.
Restart ==
  /\ restarts < MaxRestarts
  /\ restarts' = restarts + 1
  /\ inspections' = stored
  /\ currentInspectionId' = storedCurrentId
  /\ isProcessing' = FALSE
  /\ processingItems' = {}
  /\ calls' = {}
  /\ rInsp' = NoInsp
  /\ rIsProcessing' = FALSE
  /\ rCid' = firstRenderCurrentInspectionId
  /\ reconcile' = NoPass("idle")
  /\ syncs' = {}
  /\ saveTimer' = NoSave
  /\ deletion' = NoDeletion
  /\ creation' = NoCreation
  /\ UNCHANGED <<thrown, trashed>>
  /\ UNCHANGED <<storedCurrentId, stored, srv, srvItemCount, itemCount,
                 opCount, rejects, taps, media, fails>>
  /\ UNCHANGED clockVars

\* -------------------------------------------------------- deleteInspection
\* deleteInspection(id) is called for an inspection of the rendered list: the
\* closure's inspections.find gives inspectionToDelete (here the ids of its
\* items), and the call waits for getStorageUsage and for the remote delete.
DeleteInspectionStart(k) ==
  /\ Fresh
  /\ deletion.phase = "none"
  /\ k \in DOMAIN inspections
  /\ deletion' = [NoDeletion EXCEPT !.phase = "remote",
                                    !.id = inspections[k].id,
                                    !.cid = rCid,
                                    !.snapshot = DOMAIN inspections[k].items]
  /\ UNCHANGED <<inspections, currentInspectionId, storedCurrentId,
                 isProcessing, processingItems, calls, rInsp, rIsProcessing,
                 rCid, srv, srvItemCount, itemCount, opCount, reconcile,
                 syncs, rejects, taps, saveTimer, media, fails>>
  /\ UNCHANGED <<storeVars, clockVars>>
  /\ UNCHANGED uiVars

\* Variant of the catch around apiClient.deleteInspection that rethrows.
AfterRemoteDelete_Rethrowing(ok) == IF ok THEN "cleanup" ELSE "thrown"

\* The try/catch around apiClient.deleteInspection: the error is logged and
\* the call goes on with the media cleanup either way.
AfterRemoteDelete(ok) == "cleanup"

\* The server deletes the inspection and answers.
RemoteDeleteOk ==
  /\ deletion.phase = "remote"
  /\ deletion.id \in DOMAIN srv
  /\ srv' = Remove(srv, deletion.id)
  /\ deletion' = [deletion EXCEPT !.phase = AfterRemoteDelete(TRUE),
                                  !.remote = "ok"]
  /\ UNCHANGED <<inspections, currentInspectionId, storedCurrentId,
                 isProcessing, processingItems, calls, rInsp, rIsProcessing,
                 rCid, srvItemCount, itemCount, opCount, reconcile,
                 syncs, rejects, taps, saveTimer, media, fails>>
  /\ UNCHANGED <<storeVars, clockVars>>
  /\ UNCHANGED uiVars

\* apiClient.deleteInspection throws: no connection or an error response.
RemoteDeleteFails ==
  /\ deletion.phase = "remote"
  /\ deletion' = [deletion EXCEPT !.phase = AfterRemoteDelete(FALSE),
                                  !.remote = "err"]
  /\ UNCHANGED <<inspections, currentInspectionId, storedCurrentId,
                 isProcessing, processingItems, calls, rInsp, rIsProcessing,
                 rCid, srv, srvItemCount, itemCount, opCount, reconcile,
                 syncs, rejects, taps, saveTimer, media, fails>>
  /\ UNCHANGED <<storeVars, clockVars>>
  /\ UNCHANGED uiVars

\* cleanupInspectionMediaFiles(inspectionToDelete): the files of the items
\* of the snapshot are deleted, or the deletions fail and are logged.
CleanupMedia(ok) ==
  /\ deletion.phase = "cleanup"
  /\ media' = IF ok THEN media \ deletion.snapshot ELSE media
  /\ deletion' = [deletion EXCEPT !.phase = "remove",
                                  !.attempted = deletion.snapshot]
  /\ UNCHANGED <<inspections, currentInspectionId, storedCurrentId,
                 isProcessing, processingItems, calls, rInsp, rIsProcessing,
                 rCid, srv, srvItemCount, itemCount, opCount, reconcile,
                 syncs, rejects, taps, saveTimer, fails>>
  /\ UNCHANGED <<storeVars, clockVars>>
  /\ UNCHANGED uiVars

\* prev.filter(i => i.id !== inspectionId)
RemoveInspectionFrom(prev, id) == SelectSeq(prev, LAMBDA i : i.id # id)

\* The items of the inspections with the given id.
ItemsOfInspection(prev, id) ==
  UNION {DOMAIN prev[k].items : k \in {j \in DOMAIN prev : prev[j].id = id}}

\* setInspections(prev => filter) with its debounced save.
RemoveInspection ==
  /\ deletion.phase = "remove"
  /\ inspections' = RemoveInspectionFrom(inspections, deletion.id)
  /\ saveTimer' = Scheduled(inspections')
  /\ deletion' = [deletion EXCEPT
                    !.phase = "removed",
                    !.removed = ItemsOfInspection(inspections, deletion.id)]
  /\ UNCHANGED <<currentInspectionId, storedCurrentId,
                 isProcessing, processingItems, calls, rInsp, rIsProcessing,
                 rCid, srv, srvItemCount, itemCount, opCount, reconcile,
                 syncs, rejects, taps, media, fails>>
  /\ UNCHANGED <<storeVars, clockVars>>
  /\ UNCHANGED uiVars

\* The end of deleteInspection: setCurrentInspection(null) when the closure's
\* currentInspectionId is the deleted id, and the call returns.
DeleteInspectionEnd ==
  /\ deletion.phase = "removed"
  /\ deletion' = [deletion EXCEPT !.phase = "done"]
  /\ IF deletion.cid = deletion.id
     THEN /\ currentInspectionId' = Null
          /\ storedCurrentId' = Null
     ELSE UNCHANGED <<currentInspectionId, storedCurrentId>>
  /\ UNCHANGED <<inspections, isProcessing, processingItems, calls, rInsp,
                 rIsProcessing, rCid, srv, srvItemCount, itemCount, opCount,
                 reconcile, syncs, rejects, taps, saveTimer, media, fails>>
  /\ UNCHANGED <<storeVars, clockVars>>
  /\ UNCHANGED uiVars

\* -------------------------------------------------------- createInspection
\* The id Crypto.randomUUID gives the inspection created offline.
CreatedLocalId == LocalInspId(2)

\* Variant of createInspection that marks the offline inspection as local.
CreatedInspection_MarkedLocal(ok, res) ==
  [id |-> IF ok THEN res ELSE CreatedLocalId,
   status |-> IF ok THEN "active" ELSE "local",
   items |-> <<>>]

\* The inspection createInspection builds: in the try block from the
\* server's answer, in the catch block with a local id.
CreatedInspection(ok, res) ==
  [id |-> IF ok THEN res ELSE CreatedLocalId,
   status |-> "active",
   items |-> <<>>]

\* saveInspection: prev.filter(i => i.id !== inspection.id), then push.
SaveInspection(prev, inspection) ==
  Append(SelectSeq(prev, LAMBDA i : i.id # inspection.id), inspection)

\* handleNewInspection: createInspection is called and waits for
\* apiClient.createInspection.
CreateInspectionStart ==
  /\ Fresh
  /\ creation.phase = "none"
  /\ creation' = [creation EXCEPT !.phase = "sent"]
  /\ UNCHANGED <<inspections, currentInspectionId, storedCurrentId,
                 isProcessing, processingItems, calls, rInsp, rIsProcessing,
                 rCid, srv, srvItemCount, itemCount, opCount, reconcile,
                 syncs, rejects, taps, saveTimer, thrown, trashed, fails>>
  /\ UNCHANGED <<storeVars, clockVars, delVars>>

\* The server creates the inspection and answers with its id.
CreateServerAccept ==
  /\ creation.phase = "sent"
  /\ Cardinality(DOMAIN srv) < MaxSrvInsp
  /\ LET id == SrvInspId(Cardinality(DOMAIN srv) + 1)
     IN /\ srv' = Put(srv, id, {})
        /\ creation' = [phase |-> "ok", res |-> id]
  /\ UNCHANGED <<inspections, currentInspectionId, storedCurrentId,
                 isProcessing, processingItems, calls, rInsp, rIsProcessing,
                 rCid, srvItemCount, itemCount, opCount, reconcile,
                 syncs, rejects, taps, saveTimer, thrown, trashed, fails>>
  /\ UNCHANGED <<storeVars, clockVars, delVars>>

\* apiClient.createInspection throws.
CreateServerReject ==
  /\ creation.phase = "sent"
  /\ creation' = [phase |-> "err", res |-> Null]
  /\ UNCHANGED <<inspections, currentInspectionId, storedCurrentId,
                 isProcessing, processingItems, calls, rInsp, rIsProcessing,
                 rCid, srv, srvItemCount, itemCount, opCount, reconcile,
                 syncs, rejects, taps, saveTimer, thrown, trashed, fails>>
  /\ UNCHANGED <<storeVars, clockVars, delVars>>

\* createInspection after its remote call settled: the inspection is built,
\* stored by saveInspection and returned.
CreateInspectionSettle ==
  /\ creation.phase \in {"ok", "err"}
  /\ LET inspection == CreatedInspection(creation.phase = "ok", creation.res)
     IN /\ inspections' = SaveInspection(inspections, inspection)
        /\ creation' = [phase |-> "done", res |-> inspection.id]
  /\ saveTimer' = Scheduled(inspections')
  /\ UNCHANGED <<currentInspectionId, storedCurrentId,
                 isProcessing, processingItems, calls, rInsp, rIsProcessing,
                 rCid, srv, srvItemCount, itemCount, opCount, reconcile,
                 syncs, rejects, taps, thrown, trashed, fails>>
  /\ UNCHANGED <<storeVars, clockVars, delVars>>

\* handleNewInspection goes on: setCurrentInspection(inspection) with the
\* inspection createInspection returned.
SelectCreated ==
  /\ creation.phase = "done"
  /\ creation' = [creation EXCEPT !.phase = "selected"]
  /\ storedCurrentId' = creation.res
  /\ currentInspectionId' = creation.res
  /\ UNCHANGED <<inspections, isProcessing, processingItems, calls, rInsp,
                 rIsProcessing, rCid, srv, srvItemCount, itemCount, opCount,
                 reconcile, syncs, rejects, taps, saveTimer, thrown, trashed, fails>>
  /\ UNCHANGED <<storeVars, clockVars, delVars>>

\* The clock advances by one base delay.
TimePasses ==
  /\ now < MaxClock * baseDelay
  /\ now' = now + baseDelay
  /\ UNCHANGED <<inspections, currentInspectionId, storedCurrentId,
                 isProcessing, processingItems, calls, rInsp, rIsProcessing,
                 rCid, srv, srvItemCount, itemCount, opCount, reconcile,
                 syncs, rejects, taps, saveTimer, failedAt, fails>>
  /\ UNCHANGED <<storeVars, delVars>>
  /\ UNCHANGED uiVars

\* The backoff delay of processQueue after the retryCount-th failure.
RetryDelay(retryCount) ==
  LET delay == baseDelay * 2^(retryCount - 1)
  IN IF delay < maxDelay THEN delay ELSE maxDelay

\* -------------------------------------------------------- specifications
\* SpecBP: the Background Processor on one selected inspection the server
\* knows, after the reconcile pass of the session: captures, tag edits,
\* deletions, manual retries and the remote calls of the ticks.
InitBP ==
  /\ inspections = <<[id |-> SrvInspId(1), status |-> "active", items |-> <<>>]>>
  /\ currentInspectionId = SrvInspId(1)
  /\ storedCurrentId = SrvInspId(1)
  /\ isProcessing = FALSE
  /\ processingItems = {}
  /\ calls = {}
  /\ rInsp = [id |-> SrvInspId(1), status |-> "active", items |-> <<>>]
  /\ rIsProcessing = FALSE
  /\ rCid = SrvInspId(1)
  /\ srv = Put(<<>>, SrvInspId(1), {})
  /\ srvItemCount = 0
  /\ itemCount = 0
  /\ opCount = 0
  /\ reconcile = NoPass("merged")
  /\ syncs = {}
  /\ rejects = 0
  /\ taps = 0
  /\ stored = inspections
  /\ saveTimer = NoSave
  /\ restarts = 0
  /\ now = 0
  /\ failedAt = [i \in LocalItemIds |-> 0]
  /\ deletion = NoDeletion
  /\ media = {}
  /\ creation = NoCreation
  /\ thrown = {}
  /\ trashed = {}
  /\ fails = [i \in LocalItemIds |-> 0]

NextBP ==
  \/ Render
  \/ RetryUploadSync
  \/ \E c \in calls : ServerAccept(c)
  \/ \E c \in calls : ServerReject(c)
  \/ \E c \in calls : Settle(c)
  \/ AddInspectionItem
  \/ \E i \in DOMAIN rInsp.items : EditTags(i)
  \/ \E i \in DOMAIN rInsp.items : DeleteInspectionItem(i)

SpecBP == InitBP /\ [][NextBP]_vars

\* An item of an earlier session whose uploads failed maxRetries times.
LeftoverItemId == LocalItemId(0)

LeftoverItem ==
  [NewItem(SrvInspId(1)) EXCEPT !.processingStatus = "failed",
                                !.retryCount = maxRetries]

\* An item the earlier session uploaded, whose tags the user then edited and
\* whose updates failed maxRetries times.
LeftoverUploadedId == SrvItemId(0)

LeftoverEditedItem ==
  [LeftoverItem EXCEPT !.backendId = LeftoverUploadedId, !.tags = "user"]

\* What the earlier session left in the inspection the server knows.
LeftoverKinds == {"none", "upload", "update"}

LeftoverItems(kind) ==
  IF kind = "upload" THEN Put(<<>>, LeftoverItemId, LeftoverItem)
  ELSE IF kind = "update" THEN Put(<<>>, LeftoverItemId, LeftoverEditedItem)
  ELSE <<>>

LeftoverServerItems(kind) ==
  IF kind = "update" THEN {LeftoverUploadedId} ELSE {}

\* SpecRec: a session that starts from the snapshot an earlier session left
\* in the durable store: an inspection created offline, alone on a server
\* without inspections or next to an inspection the server knows, which may
\* hold an item whose upload or update failed in the earlier session.  Items
\* are captured and uploaded, the selection changes, and the reconcile pass
\* of the session runs with its id adoptions.  A request of the processor fails in this
\* specification only when the server does not know its inspection.
InitRec ==
  /\ \E known \in BOOLEAN, leftover \in LeftoverKinds :
       IF known
       THEN /\ inspections =
                 <<[id |-> SrvInspId(1), status |-> "active",
                    items |-> LeftoverItems(leftover)],
                   [id |-> LocalInspId(1), status |-> "active", items |-> <<>>]>>
            /\ srv = Put(<<>>, SrvInspId(1), LeftoverServerItems(leftover))
       ELSE /\ leftover = "none"
            /\ inspections = <<[id |-> LocalInspId(1), status |-> "active", items |-> <<>>]>>
            /\ srv = <<>>
  /\ currentInspectionId \in {inspections[k].id : k \in DOMAIN inspections}
  /\ storedCurrentId = currentInspectionId
  /\ isProcessing = FALSE
  /\ processingItems = {}
  /\ calls = {}
  /\ rInsp = CurrentInspection(inspections, currentInspectionId)
  /\ rIsProcessing = FALSE
  /\ rCid = currentInspectionId
  /\ srvItemCount = 0
  /\ itemCount = 0
  /\ opCount = 0
  /\ reconcile = NoPass("idle")
  /\ syncs = {}
  /\ rejects = 0
  /\ taps = 0
  /\ stored = inspections
  /\ saveTimer = NoSave
  /\ restarts = 0
  /\ now = 0
  /\ failedAt = [i \in LocalItemIds |-> 0]
  /\ deletion = NoDeletion
  /\ media = {}
  /\ creation = NoCreation
  /\ thrown = {}
  /\ trashed = {}
  /\ fails = [i \in LocalItemIds |-> 0]

NextRec ==
  \/ Render
  \/ \E c \in calls : ServerAccept(c)
  \/ \E c \in calls : ServerRefuse(c)
  \/ \E c \in calls : Settle(c)
  \/ \E k \in DOMAIN inspections : SetCurrentInspection(k)
  \/ AddInspectionItem
  \/ ReconcileListFails
  \/ ReconcileListEmpty
  \/ \E d \in SUBSET DOMAIN srv : ReconcileFetch(d)
  \/ ReconcileMerge
  \/ \E s \in syncs : SyncServerAccept(s)
  \/ \E s \in syncs : SyncServerReject(s)
  \/ \E s \in syncs : SyncSettle(s)

SpecRec == InitRec /\ [][NextRec]_vars

\* SpecStore: the session of SpecRec with the durable store: the debounce
\* timer fires, and the process may die and be started again from the store.
NextStore ==
  \/ Render
  \/ \E c \in calls : ServerAccept(c)
  \/ \E c \in calls : Settle(c)
  \/ AddInspectionItem
  \/ \E d \in SUBSET DOMAIN srv : ReconcileFetch(d)
  \/ ReconcileMerge
  \/ \E s \in syncs : SyncServerAccept(s)
  \/ \E s \in syncs : SyncSettle(s)
  \/ SaveFires
  \/ Restart

SpecStore == InitRec /\ [][NextStore]_vars

\* SpecTime: the Background Processor of SpecBP on a clock, without user
\* operations other than captures: an item's retryCount is the number of
\* its consecutive failures.
NextTime ==
  \/ Render
  \/ \E c \in calls : ServerAccept(c)
  \/ \E c \in calls : ServerReject(c)
  \/ \E c \in calls : Settle(c)
  \/ AddInspectionItem
  \/ TimePasses

SpecTime == InitBP /\ [][NextTime]_vars

\* SpecGone: the Background Processor of SpecBP with the durable store:
\* items are captured, uploaded and deleted while their upload is running,
\* and the debounce timer fires.
NextGone ==
  \/ Render
  \/ \E c \in calls : ServerAccept(c)
  \/ \E c \in calls : ServerReject(c)
  \/ \E c \in calls : Settle(c)
  \/ AddInspectionItem
  \/ \E i \in DOMAIN rInsp.items : DeleteInspectionItem(i)
  \/ SaveFires

SpecGone == InitBP /\ [][NextGone]_vars

\* SpecDel: the session of SpecBP in which the user deletes an inspection
\* while items are captured and uploaded.
NextDel ==
  \/ Render
  \/ \E c \in calls : ServerAccept(c)
  \/ \E c \in calls : ServerRefuse(c)
  \/ \E c \in calls : Settle(c)
  \/ AddInspectionItem
  \/ \E k \in DOMAIN inspections : DeleteInspectionStart(k)
  \/ RemoteDeleteOk
  \/ RemoteDeleteFails
  \/ \E ok \in BOOLEAN : CleanupMedia(ok)
  \/ RemoveInspection
  \/ DeleteInspectionEnd

SpecDel == InitBP /\ [][NextDel]_vars

\* SpecHome: the session of SpecBP on the home screen: the user creates an
\* inspection and changes the selection while items are captured and
\* uploaded.
NextHome ==
  \/ Render
  \/ \E c \in calls : ServerAccept(c)
  \/ \E c \in calls : ServerRefuse(c)
  \/ \E c \in calls : Settle(c)
  \/ AddInspectionItem
  \/ CreateInspectionStart
  \/ CreateServerAccept
  \/ CreateServerReject
  \/ CreateInspectionSettle
  \/ SelectCreated
  \/ \E k \in DOMAIN inspections : SetCurrentInspection(k)
  \/ \E k \in DOMAIN inspections : SetCurrentInspectionFails(k)

SpecHome == InitBP /\ [][NextHome]_vars

\* SpecWake: the Background Processor of SpecBP without user operations
\* other than captures, with the fair scheduler of SpecBPFair: items are
\* captured while ticks are in progress, and calls fail and are retried.
NextWake ==
  \/ Render
  \/ \E c \in calls : ServerAccept(c)
  \/ \E c \in calls : ServerReject(c)
  \/ \E c \in calls : Settle(c)
  \/ AddInspectionItem

SpecWake ==
  /\ InitBP
  /\ [][NextWake]_vars
  /\ WF_vars(Render)
  /\ WF_vars(\E c \in calls : ServerAccept(c))
  /\ WF_vars(\E c \in calls : Settle(c))

\* SpecEdit: the session of SpecRec in which the user edits the tags of
\* items while items are captured and uploaded, calls fail in transit and
\* the reconcile pass runs.
NextEdit ==
  \/ Render
  \/ \E c \in calls : ServerAccept(c)
  \/ \E c \in calls : ServerReject(c)
  \/ \E c \in calls : Settle(c)
  \/ AddInspectionItem
  \/ \E i \in DOMAIN rInsp.items : EditTags(i)
  \/ \E d \in SUBSET DOMAIN srv : ReconcileFetch(d)
  \/ ReconcileMerge

SpecEdit == InitRec /\ [][NextEdit]_vars

\* SpecTrash: the session of SpecRec in which the user deletes items while
\* items are captured and uploaded and the reconcile pass runs.
NextTrash ==
  \/ Render
  \/ \E c \in calls : ServerAccept(c)
  \/ \E c \in calls : Settle(c)
  \/ AddInspectionItem
  \/ \E i \in DOMAIN rInsp.items : DeleteInspectionItem(i)
  \/ \E d \in SUBSET DOMAIN srv : ReconcileFetch(d)
  \/ ReconcileMerge

SpecTrash == InitRec /\ [][NextTrash]_vars

\* SpecBPFair: SpecBP with a fair scheduler: a pending render runs, a hanging
\* request is eventually served and a settled call is eventually delivered.
\* Failures in transit are not forced and are finite (MaxRejects).
SpecBPFair ==
  /\ SpecBP
  /\ WF_vars(Render)
  /\ WF_vars(\E c \in calls : ServerAccept(c))
  /\ WF_vars(\E c \in calls : Settle(c))

\* ---------------------------------------------------------------- claims
\* Steps of the model as seen from the variables.
RenderStep == <<rInsp, rIsProcessing, rCid>>' # <<rInsp, rIsProcessing, rCid>>

ManualRetryStep == taps' = taps + 1

MergeStep == reconcile.phase = "fetched" /\ reconcile'.phase = "merged"

ListFailureStep == reconcile.phase = "idle" /\ reconcile'.phase = "failed"

AdoptionStep(s) == s \in syncs /\ s.st = "ok" /\ s \notin syncs'

\* The matched pairs of a merge: local inspection k, converted inspection m.
Matched(k, m) ==
  /\ k \in DOMAIN inspections
  /\ m \in DOMAIN reconcile.converted
  /\ reconcile.converted[m].id = inspections[k].id

\* C1: at-most-one-in-flight.  Whatever the interleaving of the automatic
\* trigger and retryUploadSync while remote calls hang, no item has two
\* handlers or remote calls outstanding at the same time.
C1_AtMostOneInFlight ==
  \A c1, c2 \in calls : c1.item = c2.item => c1 = c2

\* C1 witness: a request for an item hangs, the closure of the last render
\* still shows that item pending and the processor idle, and retryUploadSync
\* has run with that closure (it has reset another item, shown failed by the
\* closure, to pending with retryCount 0).
C1_Witness ==
  \E c \in calls : \E j \in DOMAIN rInsp.items :
    /\ c.st = "sent"
    /\ c.item \in processingItems
    /\ c.item \in DOMAIN rInsp.items
    /\ rInsp.items[c.item].processingStatus = "pending"
    /\ ~rIsProcessing
    /\ j # c.item
    /\ rInsp.items[j].processingStatus = "failed"
    /\ HasItem(inspections, j)
    /\ ItemOf(inspections, j).processingStatus = "pending"
    /\ ItemOf(inspections, j).retryCount = 0
    /\ taps > 0

\* C2: ownership partition across reconciliation.  In the merge of a
\* reconcile pass, every local item without backendId whose status is
\* pending, processing or failed, and whose inspection the server returned
\* without that item, is in the merged inspection unchanged.
C2_OwnershipPartition ==
  [][MergeStep =>
       \A k \in DOMAIN inspections : \A m \in DOMAIN reconcile.converted :
         \A i \in DOMAIN inspections[k].items :
           ( /\ Matched(k, m)
             /\ inspections[k].items[i].backendId = Null
             /\ inspections[k].items[i].processingStatus
                  \in {"pending", "processing", "failed"}
             /\ i \notin DOMAIN reconcile.converted[m].items )
           => \E k2 \in DOMAIN inspections' :
                /\ inspections'[k2].id = inspections[k].id
                /\ i \in DOMAIN inspections'[k2].items
                /\ inspections'[k2].items[i] = inspections[k].items[i]]_vars

\* C2 witness: a merge has re-inserted a local item that is being processed
\* or has failed, and the item is in the Repository.
C2_Witness ==
  /\ reconcile.phase = "merged"
  /\ \E i \in reconcile.preserved :
       /\ HasItem(inspections, i)
       /\ ItemOf(inspections, i).backendId = Null
       /\ ItemOf(inspections, i).processingStatus \in {"processing", "failed"}

\* C3: retry bound.  Counting the failed remote calls of an item from its
\* capture, the first and the second failure put it back to pending with
\* retryCount 1 and 2, the third makes it failed with retryCount 3, and no
\* item is failed before its third failed call.
C3_RetryBound ==
  /\ [](\A i \in AllItemIds(inspections) :
          ItemOf(inspections, i).processingStatus = "failed"
            => fails[i] >= maxRetries)
  /\ [][\A i \in LocalItemIds :
          ( /\ fails'[i] = fails[i] + 1
            /\ fails'[i] <= maxRetries
            /\ HasItem(inspections', i) )
          => /\ ItemOf(inspections', i).retryCount = fails'[i]
             /\ ItemOf(inspections', i).processingStatus =
                  IF fails'[i] < maxRetries THEN "pending" ELSE "failed"]_vars

\* C3 witness: an item is failed with retryCount 3 after exactly three failed
\* calls.
C3_Witness ==
  \E i \in AllItemIds(inspections) :
    /\ ItemOf(inspections, i).processingStatus = "failed"
    /\ ItemOf(inspections, i).retryCount = maxRetries
    /\ fails[i] = maxRetries

\* C4: failed is terminal until manual retry.  No remote call is outstanding
\* for an item that is failed, and an item that is failed and stays in the
\* Repository leaves failed only in a step of retryUploadSync.
C4_FailedTerminal ==
  /\ [](\A c \in calls :
          (c.st = "sent" /\ HasItem(inspections, c.item))
            => ItemOf(inspections, c.item).processingStatus # "failed")
  /\ [][\A i \in AllItemIds(inspections) :
          ( /\ ItemOf(inspections, i).processingStatus = "failed"
            /\ HasItem(inspections', i)
            /\ ItemOf(inspections', i).processingStatus # "failed" )
          => ManualRetryStep]_vars

\* C5: manual retry.  retryUploadSync sets every item that the current
\* inspection it was rendered with shows failed, that is not in flight and
\* is in the Repository, to pending with retryCount 0; and the trigger effect
\* of a render issues a remote call for every pending item of the current
\* inspection that is not in flight when the processor is idle.
C5_ManualRetry ==
  /\ [][ManualRetryStep =>
          \A i \in DOMAIN rInsp.items :
            ( /\ rInsp.items[i].processingStatus = "failed"
              /\ i \notin processingItems
              /\ HasItem(inspections, i) )
            => /\ HasItem(inspections', i)
               /\ ItemOf(inspections', i).processingStatus = "pending"
               /\ ItemOf(inspections', i).retryCount = 0]_vars
  /\ [][RenderStep =>
          \A i \in DOMAIN CurrentInspection(inspections, currentInspectionId).items :
            ( /\ ItemOf(inspections, i).processingStatus = "pending"
              /\ i \notin processingItems
              /\ ~isProcessing )
            => \E c \in calls' :
                 /\ c.item = i
                 /\ c.st = "sent"
                 /\ c.snap.retryCount = ItemOf(inspections, i).retryCount]_vars

\* C5 witness: an item that had failed three times is attempted again with
\* retryCount 0 after a manual retry.
C5_Witness ==
  \E c \in calls :
    /\ c.st = "sent"
    /\ c.item \in DOMAIN fails
    /\ fails[c.item] >= maxRetries
    /\ c.snap.retryCount = 0
    /\ taps > 0

\* C6: eventual delivery.  Under a fair scheduler and a Remote Client whose
\* failures are finite, every item that is pending is eventually completed
\* with a backendId, unless it is deleted.
C6_EventualDelivery ==
  \A i \in LocalItemIds :
    (HasItem(inspections, i) /\ ItemOf(inspections, i).processingStatus = "pending")
      ~> ( \/ ~HasItem(inspections, i)
           \/ /\ ItemOf(inspections, i).processingStatus = "completed"
              /\ ItemOf(inspections, i).backendId # Null )

\* C7: id adoption moves the selection.  When the id of the selected local
\* inspection is replaced by the server id, the selection pointer in memory
\* and in the durable store is the new id afterwards.
C7_AdoptionMovesSelection ==
  [][\A s \in syncs :
       (AdoptionStep(s) /\ currentInspectionId = s.localId)
         => /\ currentInspectionId' = s.newId
            /\ storedCurrentId' = s.newId]_vars

\* C8: adoption replaces the old id everywhere.  After the id swap no
\* inspection has the old id, and every item of the inspection with the new
\* id has inspectionId equal to the new id.
C8_AdoptionEverywhere ==
  [][\A s \in syncs :
       AdoptionStep(s)
         => \A k \in DOMAIN inspections' :
              /\ inspections'[k].id # s.localId
              /\ inspections'[k].id = s.newId
                   => \A i \in DOMAIN inspections'[k].items :
                        inspections'[k].items[i].inspectionId = s.newId]_vars

\* C9: reconcile fetch failure leaves local state untouched.  A pass whose
\* list fetch failed, or in which some detail fetch failed, leaves the
\* inspections and their items as they were.
C9_FetchFailureUntouched ==
  [][(ListFailureStep \/ (MergeStep /\ reconcile.detailFailed))
       => inspections' = inspections]_vars

\* C10 as stated: when a local item is completed with backendId s and the
\* server detail of its inspection holds exactly the item s, the merged
\* inspection holds one item, with backendId s, and no other item.
C10_NoDuplicationNoOtherItem ==
  [][MergeStep =>
       \A k \in DOMAIN inspections : \A m \in DOMAIN reconcile.converted :
         \A i \in DOMAIN inspections[k].items :
           ( /\ Matched(k, m)
             /\ inspections[k].items[i].backendId # Null
             /\ inspections[k].items[i].processingStatus = "completed"
             /\ DOMAIN reconcile.converted[m].items
                  = {inspections[k].items[i].backendId} )
           => \A k2 \in DOMAIN inspections' :
                inspections'[k2].id = inspections[k].id
                  => /\ Cardinality(DOMAIN inspections'[k2].items) = 1
                     /\ \A j \in DOMAIN inspections'[k2].items :
                          inspections'[k2].items[j].backendId
                            = inspections[k].items[i].backendId]_vars

\* C10 amended: when a local item is completed with backendId s and the
\* server detail of its inspection holds exactly the item s, the merged
\* inspection holds exactly one item with backendId s, and every other item
\* of it is a local item without backendId that was pending, processing or
\* failed before the merge and is unchanged.
C10_NoDuplication ==
  [][MergeStep =>
       \A k \in DOMAIN inspections : \A m \in DOMAIN reconcile.converted :
         \A i \in DOMAIN inspections[k].items :
           ( /\ Matched(k, m)
             /\ inspections[k].items[i].backendId # Null
             /\ inspections[k].items[i].processingStatus = "completed"
             /\ DOMAIN reconcile.converted[m].items
                  = {inspections[k].items[i].backendId} )
           => \A k2 \in DOMAIN inspections' :
                inspections'[k2].id = inspections[k].id
                  => /\ Cardinality({j \in DOMAIN inspections'[k2].items :
                                       inspections'[k2].items[j].backendId
                                         = inspections[k].items[i].backendId}) = 1
                     /\ \A j \in DOMAIN inspections'[k2].items :
                          inspections'[k2].items[j].backendId
                              # inspections[k].items[i].backendId
                            => /\ j \in DOMAIN inspections[k].items
                               /\ inspections'[k2].items[j] = inspections[k].items[j]
                               /\ inspections[k].items[j].backendId = Null
                               /\ inspections[k].items[j].processingStatus
                                    \in {"pending", "processing", "failed"}]_vars

\* C10 witness: a merge has met a completed local item whose inspection the
\* server returned with exactly the item of its backendId, and the merged
\* inspection holds that server item.
C10_Witness ==
  /\ reconcile.phase = "merged"
  /\ reconcile.deduped # {}
  /\ \E k \in DOMAIN inspections : \E j \in DOMAIN inspections[k].items :
       /\ inspections[k].items[j].backendId = j
       /\ inspections[k].items[j].processingStatus = "completed"

\* C11: idempotent reconciliation.  Running the merge again on the merged
\* collection, against the same converted server snapshot, gives the merged
\* collection again: same inspections, same item maps.
C11_IdempotentReconciliation ==
  [][MergeStep =>
       MergeLocal(reconcile.converted, {}, inspections', 1).merged
         = inspections']_vars

\* C11 witness: a merge has re-inserted a local item into a matched
\* inspection and has kept a local-only inspection.
C11_Witness ==
  /\ reconcile.phase = "merged"
  /\ reconcile.preserved # {}
  /\ Len(inspections) > Len(reconcile.converted)
  /\ \E i \in reconcile.preserved : HasItem(inspections, i)

\* A capture step, and the id of the item it adds.
CaptureStep == itemCount' = itemCount + 1

CapturedId == LocalItemId(itemCount + 1)

\* C12: capture never blocks.  With an inspection selected, capture is
\* enabled whatever the processor is doing and whatever the Remote Client
\* has answered; in one step it puts the new item, pending, into the item map
\* of the current inspection, leaves every other item and inspection as it
\* was, and neither issues nor changes a remote call.
C12_CaptureNeverBlocks ==
  /\ []((Fresh /\ rInsp # NoInsp /\ itemCount < MaxItems)
          => ENABLED AddInspectionItem)
  /\ [][CaptureStep =>
          /\ calls' = calls
          /\ srv' = srv
          /\ processingItems' = processingItems
          /\ Len(inspections') = Len(inspections)
          /\ \A k \in DOMAIN inspections :
               IF inspections[k].id = currentInspectionId
               THEN /\ inspections'[k].id = inspections[k].id
                    /\ DOMAIN inspections'[k].items
                         = DOMAIN inspections[k].items \cup {CapturedId}
                    /\ inspections'[k].items[CapturedId].processingStatus
                         = "pending"
                    /\ \A i \in DOMAIN inspections[k].items :
                         inspections'[k].items[i] = inspections[k].items[i]
               ELSE inspections'[k] = inspections[k]]_vars

\* C12 witness: an item was captured while the processor was busy with a
\* hanging request for another item, after the Remote Client had failed.
C12_Witness ==
  \E c \in calls : \E i \in AllItemIds(inspections) \cap LocalItemIds :
    /\ c.st = "sent"
    /\ c.item # i
    /\ isProcessing
    /\ rejects > 0
    /\ i \notin processingItems
    /\ ItemOf(inspections, i).processingStatus = "pending"
    /\ ItemOf(inspections, i).retryCount = 0
    /\ ItemOf(inspections, i).backendId = Null
    /\ fails[i] = 0

EmptyListStep == reconcile.phase = "idle" /\ reconcile'.phase = "empty"

\* The ids of the inspections the fetch of the pass returned.
ReturnedIds ==
  {reconcile'.converted[m].id : m \in DOMAIN reconcile'.converted}

\* C13: local-only inspections are kept and scheduled for creation.  In a
\* pass whose fetch succeeded, with or without inspections on the server,
\* every local inspection whose id the server did not return stays in the
\* Repository unchanged and exactly one createInspection call is issued for
\* it.
C13_LocalOnlyKeptAndScheduled ==
  [][(MergeStep \/ EmptyListStep) =>
       \A k \in DOMAIN inspections :
         inspections[k].id \notin ReturnedIds
           => /\ \E k2 \in DOMAIN inspections' : inspections'[k2] = inspections[k]
              /\ Cardinality({s \in syncs' \ syncs :
                                s.localId = inspections[k].id}) = 1]_vars

\* C14: server content wins for remote-owned items.  After the merge, in
\* every inspection matched by id, each item the server returned is in the
\* Repository under its server id exactly as converted, completed and with
\* its server id as backendId, whatever the local copy held.
C14_ServerContentWins ==
  [][MergeStep =>
       \A k \in DOMAIN inspections : \A m \in DOMAIN reconcile.converted :
         Matched(k, m)
           => \A k2 \in DOMAIN inspections' :
                inspections'[k2].id = inspections[k].id
                  => \A i \in DOMAIN reconcile.converted[m].items :
                       /\ i \in DOMAIN inspections'[k2].items
                       /\ inspections'[k2].items[i]
                            = reconcile.converted[m].items[i]
                       /\ inspections'[k2].items[i].processingStatus = "completed"
                       /\ inspections'[k2].items[i].backendId = i]_vars

\* C14 witness: a merge has met a local copy of a server item that differed
\* from the server's content, and the Repository holds the server's.
C14_Witness ==
  /\ reconcile.phase = "merged"
  /\ reconcile.replaced # {}
  /\ \E k \in DOMAIN inspections : \E j \in DOMAIN inspections[k].items :
       /\ inspections[k].items[j].backendId = j
       /\ inspections[k].items[j].tags = "server"

\* C15 (crash loss bound): every mutation of the collection is written to
\* the durable store within one debounce window of the last mutation: what
\* the store holds once the pending debounced write, if any, has fired is
\* the current collection, so a restart after the window loses nothing.
DurableAfterWindow == IF saveTimer.set THEN saveTimer.snap ELSE stored

C15_CrashLossBound == DurableAfterWindow = inspections

\* C16 (crash mid-flight recovery): after a restart, a tick that runs while
\* the processor is idle picks up every item of the current inspection that
\* was loaded with status processing (the in-flight set being empty), as it
\* would a pending item: a remote call is started for it.
LoadedProcessing(ci) ==
  {i \in DOMAIN ci.items :
     ci.items[i].processingStatus = "processing" /\ i \notin processingItems}

C16_CrashRecovery ==
  [][(RenderStep /\ restarts > 0 /\ ~isProcessing)
       => \A i \in LoadedProcessing(CurrentInspection(inspections,
                                                      currentInspectionId)) :
            \E c \in calls' \ calls : c.item = i]_vars

\* C17 (backoff by delayed re-eligibility): a tick selects an item that has
\* failed n >= 1 consecutive times, the last time at t, only at or after
\* t + min(base * 2^(n-1), cap).
C17_Backoff ==
  [][\A c \in calls' \ calls :
       c.snap.retryCount >= 1
         => now >= failedAt[c.item] + RetryDelay(c.snap.retryCount)]_vars

\* C18 (update of a missing item is a no-op): when the write-back of a settled
\* call calls updateInspectionItem for an item that is not in the current
\* inspection of its render (it was deleted while the call was running), the
\* handler completes, the collection is unchanged and no save is scheduled.
WriteBackStep(c) == c.st \in {"ok", "err"} /\ c \notin calls'

C18_UpdateMissingItemIsNoOp ==
  [][\A c \in calls :
       (/\ WriteBackStep(c)
        /\ c.cid # Null
        /\ c.item \notin DOMAIN CurrentInspection(inspections, c.cid).items)
         => /\ inspections' = inspections
            /\ saveTimer' = saveTimer
            /\ stored' = stored]_vars

\* A write-back found its item missing while no save was scheduled, and a
\* later state still has no save scheduled and does not hold the item.
C18_Witness ==
  \E c \in calls :
     /\ c.st = "settled" /\ ~c.wrote /\ c.cid # Null
     /\ c.item \notin AllItemIds(inspections)
     /\ saveTimer = NoSave
     /\ stored = inspections

\* C19 (local deletion survives a remote failure): deleteInspection never
\* ends by throwing for the remote failure, and when it returns, no
\* inspection with the deleted id is in the collection, whether the remote
\* delete succeeded or threw.
C19_DeletedLocallyWhateverRemote ==
  [][/\ deletion'.phase # "thrown"
     /\ (deletion.phase # "done" /\ deletion'.phase = "done")
          => /\ deletion'.remote \in {"ok", "err"}
             /\ FindIndex(inspections', deletion'.id) = 0]_vars

\* A deleteInspection whose remote delete threw has returned; the inspection
\* held an item and is gone, and the server still has it.
C19_Witness ==
  /\ deletion.phase = "done"
  /\ deletion.remote = "err"
  /\ deletion.removed # {}
  /\ FindIndex(inspections, deletion.id) = 0
  /\ deletion.id \in DOMAIN srv

\* C20 (media cleanup before removal): in every state in which the
\* inspection has been removed, the cleanup of the media files of each of
\* the items it held has been attempted.
C20_CleanupBeforeRemoval ==
  deletion.phase \in {"removed", "done"}
    => deletion.removed \subseteq deletion.attempted

\* C21 (createInspection always stores an inspection): when createInspection
\* returns, the collection has gained exactly one inspection, active and
\* without items, with the server's id if the remote call succeeded and with
\* a locally generated id if it failed; the others are kept and nothing is
\* thrown.
CreationReturns == creation.phase \in {"ok", "err"} /\ creation'.phase = "done"

IsLocalInspId(id) == id[1] = "L"

C21_CreateAlwaysStores ==
  [][CreationReturns =>
       /\ Len(inspections') = Len(inspections) + 1
       /\ \A k \in DOMAIN inspections : inspections'[k] = inspections[k]
       /\ LET new == inspections'[Len(inspections')]
          IN /\ new.status = "active"
             /\ new.items = <<>>
             /\ FindIndex(inspections, new.id) = 0
             /\ IF creation.phase = "ok"
                THEN new.id = creation.res /\ new.id \in DOMAIN srv
                ELSE IsLocalInspId(new.id)
       /\ "createInspection" \notin thrown']_vars

\* An inspection created offline is stored next to one with items.
C21_Witness ==
  /\ creation.phase \in {"done", "selected"}
  /\ IsLocalInspId(creation.res)
  /\ creation.res \notin DOMAIN srv
  /\ FindIndex(inspections, creation.res) = Len(inspections)
  /\ Len(inspections) = 2
  /\ DOMAIN inspections[1].items # {}

\* C22 (selection pointer): a setCurrentInspection that completes leaves the
\* durable pointer equal to the in-memory pointer, and one whose durable
\* write fails throws and leaves both pointers as they were; so the two
\* pointers are equal in every state.
SelectionThrows ==
  "setCurrentInspection" \notin thrown /\ "setCurrentInspection" \in thrown'

PointerMoves ==
  <<currentInspectionId, storedCurrentId>>' #
    <<currentInspectionId, storedCurrentId>>

C22_PointersEqual ==
  /\ [](storedCurrentId = currentInspectionId)
  /\ [][/\ PointerMoves => thrown' = thrown
        /\ SelectionThrows => ~PointerMoves]_vars

\* A selection failed on its durable write after the user had created and
\* selected a second inspection.
C22_Witness ==
  /\ "setCurrentInspection" \in thrown
  /\ creation.phase = "selected"
  /\ currentInspectionId = creation.res
  /\ storedCurrentId = creation.res
  /\ Len(inspections) = 2

\* C23 (all-settle join): a tick starts exactly one handler for each item
\* it marks in flight, which for the tick of a render are all the eligible
\* items of the current inspection; and when a handler's call settles, its
\* item reaches completed, pending or failed by its own outcome, whatever the
\* other handlers of the tick did, while the other items are left alone.
TickStarts == calls \subseteq calls' /\ calls' # calls

OwnOutcome(c) ==
  IF c.st = "ok" THEN {"completed"}
  ELSE IF c.snap.retryCount + 1 >= maxRetries THEN {"failed"} ELSE {"pending"}

C23_AllSettleJoin ==
  [][/\ TickStarts =>
          LET new == calls' \ calls
              ci == CurrentInspection(inspections, currentInspectionId)
          IN /\ \A c, d \in new : c.item = d.item => c = d
             /\ \A c, d \in new : c.tick = d.tick
             /\ {c.item : c \in new} = processingItems' \ processingItems
             /\ RenderStep =>
                  {i \in DOMAIN ci.items :
                     /\ ci.items[i].processingStatus = "pending"
                     /\ i \notin processingItems} = {c.item : c \in new}
     /\ \A c \in calls :
          (WriteBackStep(c) /\ c.cid # Null) =>
            LET before == CurrentInspection(inspections, c.cid).items
                after == CurrentInspection(inspections', c.cid).items
            IN /\ DOMAIN after = DOMAIN before
               /\ c.item \in DOMAIN before
                    => after[c.item].processingStatus \in OwnOutcome(c)
               /\ \A i \in DOMAIN before \ {c.item} : after[i] = before[i]]_vars

\* In a tick of two handlers one has failed and written its item back to
\* pending while the other's call succeeded and its item is completed.
C23_Witness ==
  \E c \in calls :
     /\ c.st = "settled" /\ c.wrote
     /\ c.item \in DOMAIN fails /\ fails[c.item] > 0
     /\ \E i \in AllItemIds(inspections) :
          /\ i # c.item
          /\ \E d \in calls : d.tick = c.tick /\ d.item = i /\ d.st = "ok"
     /\ ItemOf(inspections, c.item).processingStatus = "pending"
     /\ ItemOf(inspections, c.item).retryCount = c.snap.retryCount + 1

\* C24 (join cleanup): when the last handler of a tick has settled, none of
\* the tick's items is in the in-flight set and the busy flag is false; and
\* in every state a non-empty in-flight set implies a tick in progress (the
\* busy flag is set).
TickJoins(t) ==
  /\ \E c \in calls : c.tick = t
  /\ \A c \in calls' : c.tick # t

C24_JoinCleanup ==
  /\ [](processingItems # {} => isProcessing)
  /\ [][\A t \in {c.tick : c \in calls} :
          TickJoins(t) =>
            /\ \A c \in calls : c.tick = t => c.item \notin processingItems'
            /\ ~isProcessing']_vars

\* A tick of two handlers has joined, one item uploaded and one failed
\* item written back: nothing is in flight and the processor is idle.
C24_Witness ==
  /\ calls = {}
  /\ processingItems = {}
  /\ ~isProcessing
  /\ \E i, j \in AllItemIds(inspections) :
       /\ i # j
       /\ ItemOf(inspections, i).processingStatus = "completed"
       /\ ItemOf(inspections, i).retryCount = 1
       /\ ItemOf(inspections, j).retryCount = 1
       /\ ItemOf(inspections, j).processingStatus = "pending"
       /\ j \in DOMAIN fails /\ fails[j] = 1

\* C25 (no lost wake-up): an item of the current inspection that is pending
\* and not in flight, whether or not a tick is in progress, is eventually
\* picked up by a tick (or stops being pending, or is deleted), under a
\* scheduler with which renders run and remote calls settle.
AwaitsTick(i) ==
  LET ci == CurrentInspection(inspections, currentInspectionId)
  IN /\ i \in DOMAIN ci.items
     /\ ci.items[i].processingStatus = "pending"
     /\ i \notin processingItems

StatusOf(insps, i) == ItemOf(insps, i).processingStatus

C26_StatusLifecycle ==
  [][/\ (TickStarts /\ ~ManualRetryStep) =>
          \A i \in AllItemIds(inspections) \cap AllItemIds(inspections') :
             StatusOf(inspections', i) # StatusOf(inspections, i)
               => /\ StatusOf(inspections, i) = "pending"
                  /\ StatusOf(inspections', i) = "processing"
     /\ \A c \in calls :
          (WriteBackStep(c) /\ HasItem(inspections, c.item)
             /\ ItemOf(inspections', c.item) # ItemOf(inspections, c.item))
            => StatusOf(inspections, c.item) = "processing"]_vars

\* C27 (upload versus update branch): a handler issues the upload when its
\* item has no backendId and the update when it has one, and a tick never
\* starts an upload for an item that has a backendId in the collection.
IsUpload(c) == c.snap.backendId = Null

C27_UploadOnlyWithoutBackendId ==
  [][TickStarts =>
       \A c \in calls' \ calls :
          (IsUpload(c) /\ HasItem(inspections, c.item))
            => ItemOf(inspections, c.item).backendId = Null]_vars

\* A tick has started an update for an edited item that has a backendId and
\* an upload for an item that has none.
C27_Witness ==
  \E c, d \in calls :
     /\ c.tick = d.tick
     /\ ~IsUpload(c) /\ c.st = "sent"
     /\ ItemOf(inspections, c.item).backendId = c.snap.backendId
     /\ IsUpload(d) /\ d.st = "sent"
     /\ HasItem(inspections, d.item)
     /\ ItemOf(inspections, d.item).backendId = Null

DeletedInFlight(c) == ~HasItem(inspections, c.item)

C29_LateResultDiscarded ==
  [][\A c \in calls :
       (WriteBackStep(c) /\ DeletedInFlight(c))
         => /\ ~HasItem(inspections', c.item)
            /\ AllItemIds(inspections') = AllItemIds(inspections)
            /\ \A i \in AllItemIds(inspections) :
                 ItemOf(inspections', i) = ItemOf(inspections, i)]_vars

\* The upload of a deleted item succeeded on the server and its result was
\* delivered: the item is absent and the other item of the tick is there.
C29_Witness ==
  \E c \in calls :
     /\ c.st = "settled" /\ ~c.wrote
     /\ c.res # Null /\ ServerHasItem(c.res)
     /\ ~HasItem(inspections, c.item)
     /\ \E d \in calls : d.tick = c.tick /\ HasItem(inspections, d.item)

\* C30 (captures during the fetch are preserved): an item that
\* addInspectionItem inserted after the reconcile pass fetched and before its
\* merge is in the merged collection, under its id or, once uploaded, as the
\* server's item.
CapturedDuringFetch == AllItemIds(inspections) \ reconcile.atFetch

C30_CapturedDuringFetchKept ==
  [][MergeStep =>
       \A i \in CapturedDuringFetch :
          \/ HasItem(inspections', i)
          \/ /\ ItemOf(inspections, i).backendId # Null
             /\ HasItem(inspections', ItemOf(inspections, i).backendId)]_vars

\* C31 (the processor drains the current inspection): the handlers a tick
\* starts are for items of the inspection selected when the tick starts, and
\* a write-back touches no other inspection and gives the item in the tick's
\* inspection its result, whatever is selected when the call settles.
TickInspection(c) == CurrentInspection(inspections, c.cid)

C31_DrainsCurrentInspection ==
  [][/\ TickStarts =>
          \A c \in calls' \ calls :
             /\ c.cid = currentInspectionId
             /\ c.item \in DOMAIN TickInspection(c).items
             /\ c.snap = TickInspection(c).items[c.item]
     /\ \A c \in calls :
          WriteBackStep(c) =>
            /\ \A k \in DOMAIN inspections :
                 inspections[k].id # c.cid
                   => /\ k \in DOMAIN inspections'
                      /\ inspections'[k] = inspections[k]
            /\ c.item \in DOMAIN TickInspection(c).items
                 => /\ FindIndex(inspections', c.cid) # 0
                    /\ c.item \in DOMAIN inspections'[FindIndex(inspections', c.cid)].items
                    /\ inspections'[FindIndex(inspections', c.cid)].items[c.item]
                         .processingStatus \in OwnOutcome(c)]_vars

\* A handler's result (the id of the upload, or the failure counted by
\* handleRetry) was written to the item of the tick's inspection while
\* another inspection was selected, and the other call of the tick is still
\* running.
C31_Witness ==
  \E c, d \in calls :
     /\ c.tick = d.tick /\ d.st = "sent"
     /\ c.st = "settled" /\ c.wrote
     /\ c.sel # c.cid /\ c.sel = currentInspectionId
     /\ FindIndex(inspections, currentInspectionId) # 0
     /\ c.item \in DOMAIN TickInspection(c).items
     /\ LET item == TickInspection(c).items[c.item]
        IN \/ item.processingStatus = "completed" /\ item.backendId = c.res
           \/ /\ item.processingStatus \in {"pending", "failed"}
              /\ item.retryCount = c.snap.retryCount + 1

\* C32 (no item is stranded in processing): when the processor is idle (no
\* in-flight mark, busy flag down, no running handler) in a session without
\* a restart, no item of any inspection has the status processing.
ProcessorIdle == processingItems = {} /\ ~isProcessing /\ calls = {}

C32_NoStrandedProcessing ==
  (ProcessorIdle /\ restarts = 0)
    => \A i \in AllItemIds(inspections) : StatusOf(inspections, i) # "processing"

\* C33 (backendId is unique within an inspection): no two items of the same
\* inspection's item map carry the same backendId.
C33_BackendIdUnique ==
  \A k \in DOMAIN inspections :
     \A i, j \in DOMAIN inspections[k].items :
        (/\ i # j
         /\ inspections[k].items[i].backendId # Null)
          => inspections[k].items[j].backendId # inspections[k].items[i].backendId

\* C34 (an uploaded item never vanishes): an item whose backendId is set in
\* the collection is followed, after every step (no step here is a local
\* deletion), by an item with that backendId; a merge whose detail fetch
\* failed is left aside.
BackendIds(insps) ==
  {ItemOf(insps, i).backendId : i \in AllItemIds(insps)} \ {Null}

C34_UploadedItemStays ==
  [][(MergeStep => ~reconcile.detailFailed)
       => BackendIds(inspections) \subseteq BackendIds(inspections')]_vars

\* C35 (a queued edit on a remote-owned item survives reconciliation): an
\* item with a backendId that is pending with no call running for it is,
\* after a merge whose details were all fetched, still in the collection with
\* its tags and pending.
QueuedEdits ==
  {i \in AllItemIds(inspections) :
     /\ ItemOf(inspections, i).backendId # Null
     /\ ItemOf(inspections, i).processingStatus = "pending"
     /\ \A c \in calls : c.item # i}

C35_QueuedEditSurvivesMerge ==
  [][(MergeStep /\ ~reconcile.detailFailed) =>
       \A i \in QueuedEdits :
          \E j \in AllItemIds(inspections') :
             /\ ItemOf(inspections', j).backendId = ItemOf(inspections, i).backendId
             /\ ItemOf(inspections', j).tags = ItemOf(inspections, i).tags
             /\ ItemOf(inspections', j).processingStatus = "pending"]_vars

\* C36 (an edit made while the item is in flight is not lost): when a call
\* settles for an item that the user edited while the call was running (the
\* item is pending again and holds the user's tags), the write-back leaves
\* the user's tags in place and the item pending or in processing.
EditedInFlight(c) ==
  /\ HasItem(inspections, c.item)
  /\ ItemOf(inspections, c.item).processingStatus = "pending"
  /\ ItemOf(inspections, c.item).tags = "user"

C36_EditInFlightKept ==
  [][\A c \in calls :
       (WriteBackStep(c) /\ EditedInFlight(c))
         => /\ HasItem(inspections', c.item)
            /\ ItemOf(inspections', c.item).tags = "user"
            /\ ItemOf(inspections', c.item).processingStatus
                 \in {"pending", "processing"}]_vars

\* C37 (retryCount is bounded): every item of the collection has a
\* retryCount between 0 and maxRetries.
C37_RetryCountBounded ==
  \A i \in AllItemIds(inspections) :
     /\ ItemOf(inspections, i).retryCount >= 0
     /\ ItemOf(inspections, i).retryCount <= maxRetries

\* C38 (the selection pointer never dangles): the current inspection id is
\* null or the id of an inspection of the collection.
C38_SelectionNeverDangles ==
  \/ currentInspectionId = Null
  \/ \E k \in DOMAIN inspections : inspections[k].id = currentInspectionId

\* C39 (reconciliation never removes an inspection): after a merge every
\* inspection of the collection is still there under its id, unchanged when
\* the server did not return it, and every inspection of the merged
\* collection is one the server returned or one that was there before.
InspectionIds(insps) == {insps[k].id : k \in DOMAIN insps}

C40_DeletedItemStaysDeleted ==
  [][MergeStep => BackendIds(inspections') \cap trashed = {}]_vars

====
